---- MODULE Spec2Model ----
(***************************************************************************)
(* Model of the appleseed-max renderer parameter dialog                    *)
(* (appleseedrendererparamdlg.cpp) and of the tile callback                *)
(* (tilecallback.cpp).                                                     *)
(*                                                                         *)
(* Three specifications share the module:                                  *)
(*   SpecDlg      the rollup dialog: messages, AcceptParams, destruction   *)
(*   SpecTile     rendering threads calling pre_render / post_render_tile  *)
(*                on one bitmap, then post_render on the whole frame       *)
(*   SpecBracket  pre_render on an arbitrary rectangle, one draw_hline /   *)
(*                draw_vline call per step                                 *)
(***************************************************************************)
EXTENDS Integers, Sequences, FiniteSets

VARIABLES
    \* ---- dialog (appleseedrendererparamdlg.cpp)
    m_settings,         \* AppleseedRendererParamDlg::m_settings: the caller's settings (a reference)
    impl_m_settings,    \* Impl::m_settings: the dialog's working copy
    window_long_ptr,    \* what DLGetWindowLongPtr(hWnd) returns: "null" or "impl"
    controls,           \* m_text_pixelsamples / m_spinner_pixelsamples: "unset", "live", "released"
    edit_text,          \* the integer the pixel-samples edit field shows
    dlg,                \* "open", "destroying" (inside ~Impl, after destroy_controls), "deleted"
    fault,              \* the process took an access violation
    dlgHist,            \* history: what the dialog did so far (used by the properties only)
    \* ---- tile callback (tilecallback.cpp), rendering threads
    bitmap,             \* *m_bitmap: the colour of every pixel of the host's bitmap
    rendered_tile_count,\* *m_rendered_tile_count, shared by all TileCallback instances
    m_float_tile_storage,\* per instance: whether the temporary tile is allocated
    pc,                 \* per thread: where its TileCallback is
    cur,                \* per thread: the tile (tile_x, tile_y) it works on
    blit_i,             \* per thread: how many pixels of the tile blit_tile has put
    wlog,               \* per thread: the PutPixels calls of its current post_render_tile
    refreshed,          \* per thread: the RECT of its last RefreshWindow(&rect)
    tile_state,         \* per tile: "todo", "inflight", "aborted", "done"
    frame,              \* the frame's image: the colour of every canvas pixel
    post,               \* the master's post_render: its position, loop indices and log
    tileHist,           \* history: initial counter value, post_render_tile calls made
    \* ---- pre_render on one rectangle, call by call
    br                  \* the rectangle, the position in draw_bracket, the pixels written

dlgVars == <<m_settings, impl_m_settings, window_long_ptr, controls, edit_text,
             dlg, fault, dlgHist>>

tileVars == <<bitmap, rendered_tile_count, m_float_tile_storage, pc, cur, blit_i,
              wlog, refreshed, tile_state, frame, post, tileHist>>

vars == <<dlgVars, tileVars, br>>

(***************************************************************************)
(* size_t and int.  The plugin is built for x64: size_t has 64 bits, int   *)
(* has 32.  A size_t is kept as four 16-bit limbs, least significant       *)
(* first, so that the conversions wrap as the C++ casts do.                *)
(***************************************************************************)
Limb == 2 ^ 16

SizeT(l0, l1, l2, l3) == <<l0, l1, l2, l3>>

\* static_cast<size_t>(int): sign extension to 64 bits.
IntToSizeT(n) ==
    LET ext == IF n < 0 THEN Limb - 1 ELSE 0
    IN  SizeT(n % Limb, (n \div Limb) % Limb, ext, ext)

\* static_cast<int>(size_t): the low 32 bits, read as a signed integer.
SizeTToInt(s) ==
    IF s[2] >= Limb \div 2 THEN (s[2] - Limb) * Limb + s[1]
                           ELSE s[2] * Limb + s[1]

\* ISpinnerControl::SetLimits(1, 1000000, FALSE)
SpinnerMin == 1
SpinnerMax == 1000000

\* A size_t that lies within the spinner limits.
InSpinnerLimits(s) ==
    /\ s[3] = 0 /\ s[4] = 0
    /\ s[2] < Limb \div 2
    /\ SizeTToInt(s) >= SpinnerMin
    /\ SizeTToInt(s) <= SpinnerMax

\* ISpinnerControl::SetValue keeps the value within the limits.
SpinnerClamp(n) ==
    IF n < SpinnerMin THEN SpinnerMin ELSE IF n > SpinnerMax THEN SpinnerMax ELSE n

\* The pixel sample counts the caller constructs the dialog with.
InitialSamples == {1, 16, SpinnerMax}

\* The integers the user can leave in the edit field.
EditInts == {-1, 0, 1, 16, 64, SpinnerMax, SpinnerMax + 1}

\* Control ids carried in LOWORD(wParam).
ControlIds == {"IDC_TEXT_PIXELSAMPLES", "IDC_SPINNER_PIXELSAMPLES"}

(***************************************************************************)
(* The dialog.                                                             *)
(***************************************************************************)

\* Impl::create_controls: acquires the two controls and shows the working
\* value in the spinner (and so in the edit field linked to it).
create_controls ==
    /\ controls' = "live"
    /\ edit_text' = SpinnerClamp(SizeTToInt(impl_m_settings))

\* Impl::destroy_controls: releases both control handles.
destroy_controls ==
    controls' = "released"

\* ICustEdit::GetInt() on m_text_pixelsamples: the integer in the edit field
\* while the handle is live.  Once the handle is released the call is a use
\* of a dangling pointer: any integer, or an access violation ("fault").
GetIntResults ==
    IF controls = "live"
    THEN {[ok |-> TRUE, v |-> edit_text]}
    ELSE [ok : {TRUE}, v : EditInts] \cup {[ok |-> FALSE, v |-> 0]}

\* A mutation of on_command: the handler stores into the caller's settings too.
on_command_writes_caller(impl, wParam) ==
    /\ wParam = "IDC_TEXT_PIXELSAMPLES"
    /\ impl = "impl"
    /\ controls = "live"
    /\ impl_m_settings' = IntToSizeT(edit_text)
    /\ m_settings' = IntToSizeT(edit_text)
    /\ dlgHist' = [dlgHist EXCEPT !.lastOp = "WM_COMMAND", !.lastRead = <<edit_text>>]
    /\ UNCHANGED fault

\* on_command(impl, wParam, lParam)
on_command(impl, wParam) ==
    IF wParam = "IDC_TEXT_PIXELSAMPLES"
    THEN IF impl = "null"
         THEN \* impl->... through a null pointer
              /\ fault' = TRUE
              /\ dlgHist' = [dlgHist EXCEPT !.lastOp = "WM_COMMAND", !.staleUse = TRUE]
              /\ UNCHANGED <<impl_m_settings, m_settings>>
         ELSE \E r \in GetIntResults :
              /\ fault' = ~r.ok
              /\ impl_m_settings' = IF r.ok THEN IntToSizeT(r.v) ELSE impl_m_settings
              /\ dlgHist' = [dlgHist EXCEPT
                                !.lastOp = "WM_COMMAND",
                                !.lastRead = IF r.ok THEN <<r.v>> ELSE @,
                                !.staleUse = @ \/ controls # "live"]
              /\ UNCHANGED m_settings
    ELSE \* return FALSE
         /\ dlgHist' = [dlgHist EXCEPT !.lastOp = "WM_COMMAND"]
         /\ UNCHANGED <<impl_m_settings, m_settings, fault>>

\* dialog_proc(hWnd, uMsg, wParam, lParam)
dialog_proc(uMsg, wParam) ==
    LET impl == IF uMsg = "WM_INITDIALOG" THEN "impl" ELSE window_long_ptr
    IN  CASE uMsg = "WM_INITDIALOG" ->
               /\ window_long_ptr' = impl
               /\ create_controls
               /\ dlgHist' = [dlgHist EXCEPT !.lastOp = "WM_INITDIALOG",
                                             !.acquired = @ + 1]
               /\ UNCHANGED <<impl_m_settings, m_settings, fault, dlg>>
          [] uMsg = "WM_DESTROY" ->
               /\ dlgHist' = [dlgHist EXCEPT !.lastOp = "WM_DESTROY"]
               /\ UNCHANGED <<impl_m_settings, m_settings, fault, dlg,
                              window_long_ptr, controls, edit_text>>
          [] uMsg = "WM_COMMAND" ->
               /\ on_command(impl, wParam)
               /\ UNCHANGED <<dlg, window_long_ptr, controls, edit_text>>

\* The dialog window exists and the process runs.
WindowExists == dlg \in {"open", "destroying"} /\ ~fault

\* The host creates the page inside AddRollupPage and sends WM_INITDIALOG
\* first, once, with lParam = the Impl.
Deliver_WM_INITDIALOG ==
    /\ WindowExists
    /\ dlg = "open"
    /\ window_long_ptr = "null"
    /\ dialog_proc("WM_INITDIALOG", "none")

\* The host sends WM_COMMAND for a control of the page while the page exists.
Deliver_WM_COMMAND ==
    /\ WindowExists
    /\ window_long_ptr # "null"
    /\ \E id \in ControlIds : dialog_proc("WM_COMMAND", id)

\* The host sends WM_DESTROY.
Deliver_WM_DESTROY ==
    /\ WindowExists
    /\ window_long_ptr # "null"
    /\ dialog_proc("WM_DESTROY", "none")

\* The user changes the text of the edit field.
UserEdit ==
    /\ WindowExists
    /\ dlg = "open"
    /\ controls = "live"
    /\ \E v \in EditInts : edit_text' = v
    /\ dlgHist' = [dlgHist EXCEPT !.lastOp = "UserEdit"]
    /\ UNCHANGED <<m_settings, impl_m_settings, window_long_ptr, controls, dlg, fault>>

\* A mutation of AcceptParams: the copy goes the wrong way.
AcceptParams_reversed ==
    /\ WindowExists
    /\ dlg = "open"
    /\ window_long_ptr # "null"
    /\ impl_m_settings' = m_settings
    /\ dlgHist' = [dlgHist EXCEPT !.lastOp = "AcceptParams", !.accepted = TRUE]
    /\ UNCHANGED <<m_settings, window_long_ptr, controls, edit_text, dlg, fault>>

\* AppleseedRendererParamDlg::AcceptParams
AcceptParams ==
    /\ WindowExists
    /\ dlg = "open"
    /\ window_long_ptr # "null"
    /\ m_settings' = impl_m_settings
    /\ dlgHist' = [dlgHist EXCEPT !.lastOp = "AcceptParams", !.accepted = TRUE]
    /\ UNCHANGED <<impl_m_settings, window_long_ptr, controls, edit_text, dlg, fault>>

\* DeleteThis -> ~AppleseedRendererParamDlg -> ~Impl, up to the call of
\* DeleteRollupPage: destroy_controls has run, the page still exists.
DeleteThis ==
    /\ WindowExists
    /\ dlg = "open"
    /\ window_long_ptr # "null"
    /\ destroy_controls
    /\ dlg' = "destroying"
    /\ dlgHist' = [dlgHist EXCEPT !.lastOp = "DeleteThis", !.released = @ + 1]
    /\ UNCHANGED <<m_settings, impl_m_settings, window_long_ptr, edit_text, fault>>

\* m_rend_params->DeleteRollupPage(m_rollup_sampling) returns: the page is gone.
DeleteRollupPage ==
    /\ WindowExists
    /\ dlg = "destroying"
    /\ dlg' = "deleted"
    /\ dlgHist' = [dlgHist EXCEPT !.lastOp = "DeleteRollupPage"]
    /\ UNCHANGED <<m_settings, impl_m_settings, window_long_ptr, controls, edit_text, fault>>

\* AppleseedRendererParamDlg(rend_params, in_progress, settings), up to the
\* point where AddRollupPage has created the page's window.
InitDlg ==
    /\ \E n \in InitialSamples :
          /\ m_settings = IntToSizeT(n)
          /\ impl_m_settings = IntToSizeT(n)
          /\ dlgHist = [settings0 |-> IntToSizeT(n), lastRead |-> <<>>,
                        lastOp |-> "construct", accepted |-> FALSE,
                        staleUse |-> FALSE, acquired |-> 0, released |-> 0]
    /\ window_long_ptr = "null"
    /\ controls = "unset"
    /\ edit_text = 0
    /\ dlg = "open"
    /\ fault = FALSE

(***************************************************************************)
(* The tile callback.                                                      *)
(***************************************************************************)

\* Bounds of the frame and of the renderer's thread pool.
CanvasWidth == 3
CanvasHeight == 3
TileWidth == 2
TileHeight == 2
NumThreads == 2

Threads == 1 .. NumThreads

\* asf::CanvasProperties: m_tile_count_x, m_tile_count_y
TileCountX == (CanvasWidth + TileWidth - 1) \div TileWidth
TileCountY == (CanvasHeight + TileHeight - 1) \div TileHeight

Tiles == (0 .. TileCountX - 1) \X (0 .. TileCountY - 1)
Pixels == (0 .. CanvasWidth - 1) \X (0 .. CanvasHeight - 1)

Min(a, b) == IF a < b THEN a ELSE b

\* asf::Tile::get_width / get_height of image.tile(tile_x, tile_y): tiles of
\* the last column and row are cut at the canvas border.
TileGetWidth(tile_x) == Min(TileWidth, CanvasWidth - tile_x * TileWidth)
TileGetHeight(tile_y) == Min(TileHeight, CanvasHeight - tile_y * TileHeight)

\* const int BracketExtent = 5;
BracketExtent == 5

\* BMM_Color_fl BracketColor(1.0f, 1.0f, 1.0f, 1.0f): colours are kept in
\* tenths of full intensity.
BracketColor == 10

\* The colours a frame's tile stores (linear), as levels 0..3.
FrameColors == 0 .. 3

\* asf::Tile(tile, PixelFormatFloat, ...) followed by
\* Frame::transform_to_output_color_space: a stored level becomes the output
\* colour, in tenths of full intensity.  Level 3 becomes 10, the colour the
\* bracket is drawn in.
OutputColor(c) == <<0, 6, 8, 10>>[c + 1]

\* The colours the host's bitmap may hold before anything is drawn.
InitialBitmapColors == {1}

\* One Bitmap::PutPixels(x, y, 1, pixel) call.
Put(x, y, pixel) == [x |-> x, y |-> y, c |-> pixel]

\* Bitmap::PutPixels: a pixel outside the bitmap is not stored.
PutPixels(bm, w) ==
    IF <<w.x, w.y>> \in DOMAIN bm THEN [bm EXCEPT ![<<w.x, w.y>>] = w.c] ELSE bm

RECURSIVE PutAll(_, _)
PutAll(bm, ws) ==
    IF ws = <<>> THEN bm ELSE PutAll(PutPixels(bm, Head(ws)), Tail(ws))

\* What bounds the iterations of one line loop in the model: a loop that has
\* not ended by then does not end before its index leaves every bitmap.
MaxOrigin == 1
MaxSide == 11
LoopFuel == MaxOrigin + 2 * MaxSide + CanvasWidth + CanvasHeight

\* for (int i = from; i != to; i += s): the values i takes, and whether the
\* loop ends.
RECURSIVE LineLoop(_, _, _, _)
LineLoop(i, to, s, fuel) ==
    IF i = to THEN [idx |-> <<>>, terminated |-> TRUE]
    ELSE IF fuel = 0 THEN [idx |-> <<>>, terminated |-> FALSE]
    ELSE LET r == LineLoop(i + s, to, s, fuel - 1)
         IN  [idx |-> <<i>> \o r.idx, terminated |-> r.terminated]

\* A mutation of draw_hline: the step is always +1.
draw_hline_forward_only(x, y, length, pixel) ==
    LET l == LineLoop(x, x + length, 1, LoopFuel)
    IN  [writes |-> [k \in 1 .. Len(l.idx) |-> Put(l.idx[k], y, pixel)],
         terminated |-> l.terminated]

\* draw_hline(bitmap, x, y, length, pixel)
draw_hline(x, y, length, pixel) ==
    LET s == IF length > 0 THEN 1 ELSE -1
        l == LineLoop(x, x + length, s, LoopFuel)
    IN  [writes |-> [k \in 1 .. Len(l.idx) |-> Put(l.idx[k], y, pixel)],
         terminated |-> l.terminated]

\* draw_vline(bitmap, x, y, length, pixel)
draw_vline(x, y, length, pixel) ==
    LET s == IF length > 0 THEN 1 ELSE -1
        l == LineLoop(y, y + length, s, LoopFuel)
    IN  [writes |-> [k \in 1 .. Len(l.idx) |-> Put(x, l.idx[k], pixel)],
         terminated |-> l.terminated]

\* A mutation of draw_bracket: the arms are not cut to the tile's size.
draw_bracket_uncut(x, y, width, height, bracket_extent, pixel) ==
    LET w == bracket_extent
        h == bracket_extent
    IN  << draw_hline(x, y, w, pixel),
           draw_vline(x, y, h, pixel),
           draw_hline(x + width - 1, y, -w, pixel),
           draw_vline(x + width - 1, y, h, pixel),
           draw_hline(x, y + height - 1, w, pixel),
           draw_vline(x, y + height - 1, -h, pixel),
           draw_hline(x + width - 1, y + height - 1, -w, pixel),
           draw_vline(x + width - 1, y + height - 1, -h, pixel) >>

\* draw_bracket(bitmap, x, y, width, height, bracket_extent, pixel): its
\* eight line calls, in order.
draw_bracket(x, y, width, height, bracket_extent, pixel) ==
    LET w == Min(bracket_extent, width)
        h == Min(bracket_extent, height)
    IN  << draw_hline(x, y, w, pixel),
           draw_vline(x, y, h, pixel),
           draw_hline(x + width - 1, y, -w, pixel),
           draw_vline(x + width - 1, y, h, pixel),
           draw_hline(x, y + height - 1, w, pixel),
           draw_vline(x, y + height - 1, -h, pixel),
           draw_hline(x + width - 1, y + height - 1, -w, pixel),
           draw_vline(x + width - 1, y + height - 1, -h, pixel) >>

\* make_rect(x, y, width, height)
make_rect(x, y, width, height) ==
    [left |-> x, top |-> y, right |-> x + width, bottom |-> y + height]

\* The pixels of a RECT (right and bottom are exclusive).
RectPixels(rect) ==
    {p \in (rect.left .. rect.right - 1) \X (rect.top .. rect.bottom - 1) : TRUE}

RECURSIVE Flatten(_)
Flatten(ss) == IF ss = <<>> THEN <<>> ELSE Head(ss) \o Flatten(Tail(ss))

\* The PutPixels calls of a whole draw_bracket.
BracketWrites(x, y, width, height) ==
    LET calls == draw_bracket(x, y, width, height, BracketExtent, BracketColor)
    IN  Flatten([k \in 1 .. Len(calls) |-> calls[k].writes])

\* The rectangle the renderer passes to pre_render for a tile.
TileRect(tile) ==
    make_rect(tile[1] * TileWidth, tile[2] * TileHeight,
              TileGetWidth(tile[1]), TileGetHeight(tile[2]))

\* The frame images the model renders: a gradient, and its mirror image.
FramePatterns ==
    { [p \in Pixels |-> (p[1] + 2 * p[2]) % 4],
      [p \in Pixels |-> (3 - p[1] + p[2]) % 4] }

\* asf::Tile::get_pixel(x, y) of image.tile(tile_x, tile_y), converted to the
\* output colour space.  A read outside the image has no defined value; it is
\* taken as level 0.
TilePixel(tile_x, tile_y, x, y) ==
    LET p == <<tile_x * TileWidth + x, tile_y * TileHeight + y>>
    IN  OutputColor(IF p \in DOMAIN frame THEN frame[p] ELSE 0)

\* A mutation of blit_tile: the loops run over the nominal tile size
\* (props.m_tile_width, props.m_tile_height).
blit_tile_nominal_size(tile_x, tile_y) ==
    LET dest_x == tile_x * TileWidth
        dest_y == tile_y * TileHeight
    IN  Flatten([y1 \in 1 .. TileHeight |->
                    [x1 \in 1 .. TileWidth |->
                        Put(dest_x + (x1 - 1), dest_y + (y1 - 1),
                            TilePixel(tile_x, tile_y, x1 - 1, y1 - 1))]])

\* A mutation of blit_tile: the destination is computed from the tile's own
\* size instead of the nominal tile size.
blit_tile_dest_from_own_size(tile_x, tile_y) ==
    LET tile_width == TileGetWidth(tile_x)
        tile_height == TileGetHeight(tile_y)
        dest_x == tile_x * tile_width
        dest_y == tile_y * tile_height
    IN  Flatten([y1 \in 1 .. tile_height |->
                    [x1 \in 1 .. tile_width |->
                        Put(dest_x + (x1 - 1), dest_y + (y1 - 1),
                            TilePixel(tile_x, tile_y, x1 - 1, y1 - 1))]])

\* TileCallback::blit_tile(frame, tile_x, tile_y): its PutPixels calls, in
\* the order of the two loops (y outer, x inner).
blit_tile(tile_x, tile_y) ==
    LET dest_x == tile_x * TileWidth
        dest_y == tile_y * TileHeight
        tile_width == TileGetWidth(tile_x)
        tile_height == TileGetHeight(tile_y)
    IN  Flatten([y1 \in 1 .. tile_height |->
                    [x1 \in 1 .. tile_width |->
                        Put(dest_x + (x1 - 1), dest_y + (y1 - 1),
                            TilePixel(tile_x, tile_y, x1 - 1, y1 - 1))]])

\* The renderer's threads run while the master has not called post_render.
Rendering == post.pc = "wait"

\* Thread t is between two callbacks and holds no tile.
Free(t) == pc[t] \in {"idle", "returned"}

\* TileCallback::pre_render(x, y, width, height) on thread t's instance.  The
\* whole call is one step: the other threads' PutPixels calls interleave with
\* it pixel by pixel (post_render_tile_blit), so the bracket lands at every
\* point of another thread's blit.  SpecBracket takes the call line by line.
pre_render(t, x, y, width, height) ==
    /\ bitmap' = PutAll(bitmap, BracketWrites(x, y, width, height))
    /\ refreshed' = [refreshed EXCEPT ![t] = make_rect(x, y, width, height)]

\* The renderer hands a tile to thread t, which calls pre_render with the
\* tile's rectangle before it renders the tile.
RenderTile(t) ==
    /\ Rendering
    /\ Free(t)
    /\ \E tile \in Tiles :
          /\ tile_state[tile] = "todo"
          /\ LET r == TileRect(tile)
             IN  pre_render(t, r.left, r.top, r.right - r.left, r.bottom - r.top)
          /\ tile_state' = [tile_state EXCEPT ![tile] = "inflight"]
          /\ cur' = [cur EXCEPT ![t] = tile]
    /\ pc' = [pc EXCEPT ![t] = "rendering"]
    /\ UNCHANGED <<rendered_tile_count, m_float_tile_storage, blit_i, wlog,
                   frame, post, tileHist>>

\* The rendering is aborted while thread t renders its tile: post_render_tile
\* is not called for it.
AbortTile(t) ==
    /\ Rendering
    /\ pc[t] = "rendering"
    /\ pc' = [pc EXCEPT ![t] = "idle"]
    /\ tile_state' = [tile_state EXCEPT ![cur[t]] = "aborted"]
    /\ UNCHANGED <<bitmap, rendered_tile_count, m_float_tile_storage, cur, blit_i,
                   wlog, refreshed, frame, post, tileHist>>

\* post_render_tile(frame, tile_x, tile_y) on thread t, in blit_tile: one
\* PutPixels call of the two loops.  The first step is the call itself.
post_render_tile_blit(t) ==
    /\ Rendering
    /\ pc[t] \in {"rendering", "blit"}
    /\ LET entry == pc[t] = "rendering"
           ws == blit_tile(cur[t][1], cur[t][2])
           i == IF entry THEN 0 ELSE blit_i[t]
       IN  /\ bitmap' = PutPixels(bitmap, ws[i + 1])
           /\ wlog' = [wlog EXCEPT ![t] = (IF entry THEN <<>> ELSE @) \o <<ws[i + 1]>>]
           /\ blit_i' = [blit_i EXCEPT ![t] = i + 1]
           /\ pc' = [pc EXCEPT ![t] = IF i + 1 = Len(ws) THEN "refresh" ELSE "blit"]
           /\ tileHist' = [tileHist EXCEPT !.calls = IF entry THEN @ + 1 ELSE @]
    /\ m_float_tile_storage' = [m_float_tile_storage EXCEPT ![t] = TRUE]
    /\ UNCHANGED <<rendered_tile_count, cur, refreshed, tile_state, frame, post>>

\* post_render_tile on thread t: m_bitmap->RefreshWindow(&rect).
post_render_tile_refresh(t) ==
    /\ Rendering
    /\ pc[t] = "refresh"
    /\ LET tile_x == cur[t][1]
           tile_y == cur[t][2]
           x == tile_x * TileWidth
           y == tile_y * TileHeight
       IN  refreshed' = [refreshed EXCEPT
                            ![t] = make_rect(x, y, TileGetWidth(tile_x), TileGetHeight(tile_y))]
    /\ pc' = [pc EXCEPT ![t] = "count"]
    /\ UNCHANGED <<bitmap, rendered_tile_count, m_float_tile_storage, cur, blit_i,
                   wlog, tile_state, frame, post, tileHist>>

\* A mutation of atomic_inc32: a load and a store; the increment of a thread
\* that is in the increment at the same time may be overwritten.
inc32_load_store(t) ==
    rendered_tile_count' \in
        IF \E u \in Threads \ {t} : pc[u] = "count"
        THEN {rendered_tile_count, rendered_tile_count + 1}
        ELSE {rendered_tile_count + 1}

\* boost_atomic::atomic_inc32(m_rendered_tile_count)
atomic_inc32(t) ==
    rendered_tile_count' = rendered_tile_count + 1

\* post_render_tile on thread t: the counter is incremented and the call returns.
post_render_tile_count(t) ==
    /\ Rendering
    /\ pc[t] = "count"
    /\ atomic_inc32(t)
    /\ pc' = [pc EXCEPT ![t] = "returned"]
    /\ tile_state' = [tile_state EXCEPT ![cur[t]] = "done"]
    /\ UNCHANGED <<bitmap, m_float_tile_storage, cur, blit_i, wlog, refreshed,
                   frame, post, tileHist>>

\* A mutation of post_render_advance: the loops are nested the other way round.
post_render_advance_x_outer(x, y) ==
    IF y + 1 < TileCountY THEN [pc |-> "loop", x |-> x, y |-> y + 1]
    ELSE IF x + 1 < TileCountX THEN [pc |-> "loop", x |-> x + 1, y |-> 0]
    ELSE [pc |-> "refresh", x |-> x + 1, y |-> 0]

\* The two loops of post_render, after the body has run for (x, y): ++x, and
\* at the end of a row ++y with x = 0; after the last row the loops are left.
post_render_advance(x, y) ==
    IF x + 1 < TileCountX THEN [pc |-> "loop", x |-> x + 1, y |-> y]
    ELSE IF y + 1 < TileCountY THEN [pc |-> "loop", x |-> 0, y |-> y + 1]
    ELSE [pc |-> "refresh", x |-> 0, y |-> y + 1]

\* The master calls post_render(frame) when no thread is inside a callback or
\* renders a tile.
post_render_call ==
    /\ post.pc = "wait"
    /\ \A t \in Threads : Free(t)
    /\ post' = [post EXCEPT !.pc = "loop", !.x = 0, !.y = 0]
    /\ UNCHANGED <<bitmap, rendered_tile_count, m_float_tile_storage, pc, cur,
                   blit_i, wlog, refreshed, tile_state, frame, tileHist>>

\* post_render: one blit_tile(*frame, x, y) of the loops.
post_render_blit ==
    /\ post.pc = "loop"
    /\ bitmap' = PutAll(bitmap, blit_tile(post.x, post.y))
    /\ m_float_tile_storage' = [m_float_tile_storage EXCEPT ![0] = TRUE]
    /\ LET n == post_render_advance(post.x, post.y)
       IN  post' = [post EXCEPT !.pc = n.pc, !.x = n.x, !.y = n.y,
                                !.blits = Append(@, <<post.x, post.y>>)]
    /\ UNCHANGED <<rendered_tile_count, pc, cur, blit_i, wlog, refreshed,
                   tile_state, frame, tileHist>>

\* post_render: m_bitmap->RefreshWindow(), and the call returns.
post_render_refresh ==
    /\ post.pc = "refresh"
    /\ post' = [post EXCEPT !.pc = "done", !.refreshes = @ + 1,
                            !.blits_at_refresh = Len(post.blits)]
    /\ UNCHANGED <<bitmap, rendered_tile_count, m_float_tile_storage, pc, cur,
                   blit_i, wlog, refreshed, tile_state, frame, tileHist>>

\* The initial values of rendered_tile_count the model starts from.
InitialCounts == {0, 7}

\* TileCallback(bitmap, rendered_tile_count) for every thread and the master
\* (instance 0), before the first callback.
InitTile ==
    /\ \E c \in InitialBitmapColors : bitmap = [p \in Pixels |-> c]
    /\ \E n \in InitialCounts :
          /\ rendered_tile_count = n
          /\ tileHist = [count0 |-> n, calls |-> 0]
    /\ m_float_tile_storage = [i \in 0 .. NumThreads |-> FALSE]
    /\ pc = [t \in Threads |-> "idle"]
    /\ cur = [t \in Threads |-> <<0, 0>>]
    /\ blit_i = [t \in Threads |-> 0]
    /\ wlog = [t \in Threads |-> <<>>]
    /\ refreshed = [t \in Threads |-> make_rect(0, 0, 0, 0)]
    /\ tile_state = [tile \in Tiles |-> "todo"]
    /\ frame \in FramePatterns
    /\ post = [pc |-> "wait", x |-> 0, y |-> 0, blits |-> <<>>, refreshes |-> 0,
               blits_at_refresh |-> 0]

(***************************************************************************)
(* pre_render on one rectangle, one line call of draw_bracket per step.    *)
(***************************************************************************)

\* The bitmap of this specification is large enough for every rectangle.
BracketRects ==
    [x : 0 .. MaxOrigin, y : 0 .. MaxOrigin, width : 1 .. MaxSide, height : 1 .. MaxSide]

\* pre_render(x, y, width, height): the next line call of draw_bracket.
pre_render_line ==
    /\ br.pc = "draw"
    /\ LET calls == draw_bracket(br.rect.x, br.rect.y, br.rect.width, br.rect.height,
                                 BracketExtent, BracketColor)
           call == calls[br.line + 1]
       IN  br' = [br EXCEPT
                     !.line = @ + 1,
                     !.pc = IF ~call.terminated THEN "hung"
                            ELSE IF br.line + 1 = Len(calls) THEN "refresh" ELSE "draw",
                     !.arms = Append(@, {<<call.writes[k].x, call.writes[k].y>> :
                                            k \in 1 .. Len(call.writes)}),
                     !.lens = Append(@, Len(call.writes)),
                     !.colors = @ \cup {call.writes[k].c : k \in 1 .. Len(call.writes)}]

\* pre_render: m_bitmap->RefreshWindow(&rect), and the call returns.
pre_render_refresh ==
    /\ br.pc = "refresh"
    /\ br' = [br EXCEPT !.pc = "done",
                        !.refreshed = make_rect(br.rect.x, br.rect.y,
                                                br.rect.width, br.rect.height)]

InitBracket ==
    \E r \in BracketRects :
        br = [rect |-> r, pc |-> "draw", line |-> 0, arms |-> <<>>, lens |-> <<>>, colors |-> {},
              refreshed |-> make_rect(0, 0, 0, 0)]

(***************************************************************************)
(* The specifications.                                                     *)
(***************************************************************************)

\* The parts a specification does not exercise rest in one fixed state.
DlgAtRest ==
    /\ m_settings = IntToSizeT(1)
    /\ impl_m_settings = IntToSizeT(1)
    /\ dlgHist = [settings0 |-> IntToSizeT(1), lastRead |-> <<>>,
                  lastOp |-> "construct", accepted |-> FALSE,
                  staleUse |-> FALSE, acquired |-> 0, released |-> 0]
    /\ window_long_ptr = "null"
    /\ controls = "unset"
    /\ edit_text = 0
    /\ dlg = "open"
    /\ fault = FALSE

TileAtRest ==
    /\ bitmap = [p \in Pixels |-> 0]
    /\ rendered_tile_count = 0
    /\ tileHist = [count0 |-> 0, calls |-> 0]
    /\ m_float_tile_storage = [i \in 0 .. NumThreads |-> FALSE]
    /\ pc = [t \in Threads |-> "idle"]
    /\ cur = [t \in Threads |-> <<0, 0>>]
    /\ blit_i = [t \in Threads |-> 0]
    /\ wlog = [t \in Threads |-> <<>>]
    /\ refreshed = [t \in Threads |-> make_rect(0, 0, 0, 0)]
    /\ tile_state = [tile \in Tiles |-> "todo"]
    /\ frame = [p \in Pixels |-> 0]
    /\ post = [pc |-> "wait", x |-> 0, y |-> 0, blits |-> <<>>, refreshes |-> 0,
               blits_at_refresh |-> 0]

BracketAtRest ==
    br = [rect |-> [x |-> 0, y |-> 0, width |-> 1, height |-> 1], pc |-> "done",
          line |-> 0, arms |-> <<>>, lens |-> <<>>, colors |-> {}, refreshed |-> make_rect(0, 0, 0, 0)]

NextDlg ==
    \/ Deliver_WM_INITDIALOG /\ UNCHANGED <<tileVars, br>>
    \/ Deliver_WM_COMMAND /\ UNCHANGED <<tileVars, br>>
    \/ Deliver_WM_DESTROY /\ UNCHANGED <<tileVars, br>>
    \/ UserEdit /\ UNCHANGED <<tileVars, br>>
    \/ AcceptParams /\ UNCHANGED <<tileVars, br>>
    \/ DeleteThis /\ UNCHANGED <<tileVars, br>>
    \/ DeleteRollupPage /\ UNCHANGED <<tileVars, br>>

InitSpecDlg == InitDlg /\ TileAtRest /\ BracketAtRest

SpecDlg == InitSpecDlg /\ [][NextDlg]_vars

NextTile ==
    \/ \E t \in Threads : RenderTile(t) /\ UNCHANGED <<dlgVars, br>>
    \/ \E t \in Threads : AbortTile(t) /\ UNCHANGED <<dlgVars, br>>
    \/ \E t \in Threads : post_render_tile_blit(t) /\ UNCHANGED <<dlgVars, br>>
    \/ \E t \in Threads : post_render_tile_refresh(t) /\ UNCHANGED <<dlgVars, br>>
    \/ \E t \in Threads : post_render_tile_count(t) /\ UNCHANGED <<dlgVars, br>>
    \/ post_render_call /\ UNCHANGED <<dlgVars, br>>
    \/ post_render_blit /\ UNCHANGED <<dlgVars, br>>
    \/ post_render_refresh /\ UNCHANGED <<dlgVars, br>>

InitSpecTile == InitTile /\ DlgAtRest /\ BracketAtRest

SpecTile == InitSpecTile /\ [][NextTile]_vars

NextBracket ==
    \/ pre_render_line /\ UNCHANGED <<dlgVars, tileVars>>
    \/ pre_render_refresh /\ UNCHANGED <<dlgVars, tileVars>>

InitSpecBracket == InitBracket /\ DlgAtRest /\ TileAtRest

SpecBracket == InitSpecBracket /\ [][NextBracket]_vars

(***************************************************************************)
(* Properties of the dialog (checked under SpecDlg).                       *)
(***************************************************************************)

\* C1: whatever messages the page receives, the caller's RendererSettings
\* keep the value they had at construction until AcceptParams is called: no
\* step other than AcceptParams changes them, and a dialog that is deleted
\* without AcceptParams leaves them as they were.
C1_CallerSettingsUntouchedBeforeAccept ==
    /\ [](~dlgHist.accepted => m_settings = dlgHist.settings0)
    /\ [][dlgHist'.lastOp # "AcceptParams" => m_settings' = m_settings]_vars

\* C1 witness: the dialog was deleted without AcceptParams after a WM_COMMAND
\* changed the working copy.
C1_Witness_DeletedWithoutAccept ==
    /\ dlg = "deleted"
    /\ ~dlgHist.accepted
    /\ dlgHist.lastRead # <<>>
    /\ impl_m_settings # dlgHist.settings0

\* The value AcceptParams is to hand over: the integer the last WM_COMMAND of
\* the edit field read, converted to size_t, or the value at construction.
ExpectedSettings ==
    IF dlgHist.lastRead = <<>> THEN dlgHist.settings0
                               ELSE IntToSizeT(dlgHist.lastRead[1])

C9_WorkingCopyWithinSpinnerLimits ==
    /\ InSpinnerLimits(impl_m_settings)
    /\ InSpinnerLimits(m_settings)

\* C10: a WM_COMMAND of the edit field is handled only while impl is stored in
\* the window and the controls are acquired and not yet released; the
\* controls are released once, and only after they were acquired.
C10_ControlsUsedOnlyWhileLive ==
    /\ ~dlgHist.staleUse
    /\ dlgHist.released <= 1
    /\ dlgHist.released <= dlgHist.acquired

(***************************************************************************)
(* Properties of the tile callback (checked under SpecTile).               *)
(***************************************************************************)

\* Thread t is inside post_render_tile.
InPostRenderTile(t) == pc[t] \in {"blit", "refresh", "count"}

\* The step is (part of) pre_render or post_render.
PreOrPostRenderStep ==
    \/ post' # post
    \/ \E t \in Threads : pc[t] # "rendering" /\ pc'[t] = "rendering"

\* C3: whenever no post_render_tile call is in progress, the shared counter
\* equals its initial value plus the number of post_render_tile calls made,
\* under every interleaving of the threads; pre_render and post_render never
\* change the counter.
C3_NoIncrementLost ==
    /\ []((\A t \in Threads : ~InPostRenderTile(t)) =>
             rendered_tile_count = tileHist.count0 + tileHist.calls)
    /\ [][PreOrPostRenderStep => rendered_tile_count' = rendered_tile_count]_vars

\* C3 witness: two threads are about to increment the counter at the same
\* time, after an earlier call has already incremented it.
C3_Witness_ConcurrentIncrements ==
    /\ rendered_tile_count > tileHist.count0
    /\ \E t, u \in Threads : t # u /\ pc[t] = "count" /\ pc[u] = "count"

\* The pixels the claim names for a tile: (tile_x*tile_width + x,
\* tile_y*tile_height + y) for x < tile.get_width(), y < tile.get_height().
ClaimedTilePixels(tile) ==
    {<<tile[1] * TileWidth + x, tile[2] * TileHeight + y>> :
        x \in 0 .. TileGetWidth(tile[1]) - 1, y \in 0 .. TileGetHeight(tile[2]) - 1}

\* The frame's content of a pixel, in the output colour space.
Content(p) == OutputColor(frame[p])

\* The step is a PutPixels call of thread t's post_render_tile.
BlitStepOf(t) ==
    /\ pc[t] \in {"rendering", "blit"}
    /\ pc'[t] \in {"blit", "refresh"}
    /\ (pc'[t] # pc[t] \/ blit_i'[t] # blit_i[t])

\* C4: a post_render_tile call puts exactly the pixels of its tile, each
\* once, with the converted colour of the frame's pixel, leaves every other
\* pixel as it was, and refreshes exactly the tile's rectangle.
C4_BlitWritesExactlyTheTile ==
    /\ [](\A t \in Threads :
            /\ pc[t] \in {"refresh", "count", "returned"} =>
                  /\ {<<wlog[t][k].x, wlog[t][k].y>> : k \in 1 .. Len(wlog[t])}
                        = ClaimedTilePixels(cur[t])
                  /\ Len(wlog[t]) = Cardinality(ClaimedTilePixels(cur[t]))
                  /\ \A k \in 1 .. Len(wlog[t]) :
                        wlog[t][k].c = Content(<<wlog[t][k].x, wlog[t][k].y>>)
            /\ pc[t] \in {"count", "returned"} =>
                  RectPixels(refreshed[t]) = ClaimedTilePixels(cur[t]))
    /\ [][\A t \in Threads :
            BlitStepOf(t) =>
               /\ \A p \in Pixels \ ClaimedTilePixels(cur[t]) : bitmap'[p] = bitmap[p]
               /\ \E p \in ClaimedTilePixels(cur[t]) :
                     /\ bitmap'[p] = Content(p)
                     /\ \A q \in Pixels \ {p} : bitmap'[q] = bitmap[q]]_vars

\* C4 witness: post_render_tile has returned for a tile that the canvas
\* border cuts in both directions.
C4_Witness_EdgeTileBlitted ==
    \E t \in Threads :
        /\ pc[t] = "returned"
        /\ TileGetWidth(cur[t][1]) < TileWidth
        /\ TileGetHeight(cur[t][2]) < TileHeight
        /\ \A p \in ClaimedTilePixels(cur[t]) : bitmap[p] = Content(p)

\* The pixels pre_render sets to the bracket colour for a tile.
BracketPixels(tile) ==
    LET r == TileRect(tile)
        ws == BracketWrites(r.left, r.top, r.right - r.left, r.bottom - r.top)
    IN  {<<ws[k].x, ws[k].y>> : k \in 1 .. Len(ws)}

\* C6: when post_render_tile returns for a tile, every pixel that the tile's
\* pre_render set to the bracket colour holds the frame's content.
C6_BracketGoneWhenTileReturns ==
    [][\A t \in Threads :
          (pc[t] = "count" /\ pc'[t] = "returned") =>
              \A p \in BracketPixels(cur[t]) \cap Pixels : bitmap'[p] = Content(p)]_vars

\* C6 witness: a tile is finished and a pixel of its bracket now shows a
\* frame colour that is not the bracket colour.
C6_Witness_BracketOverwritten ==
    \E t \in Threads :
        /\ pc[t] = "returned"
        /\ \E p \in BracketPixels(cur[t]) :
              Content(p) # BracketColor /\ bitmap[p] = Content(p)

\* The tiles in row-major order: all x of row y before row y + 1.
RowMajorTiles ==
    [k \in 1 .. TileCountX * TileCountY |->
        <<(k - 1) % TileCountX, (k - 1) \div TileCountX>>]

\* C7: post_render blits every tile once, in row-major order, refreshes the
\* whole window once and only after the last tile, and leaves the frame's
\* content in every pixel of the bitmap.
C7_PostRenderBlitsAllTilesInOrder ==
    /\ post.pc \in {"loop", "refresh"} =>
          /\ post.refreshes = 0
          /\ Len(post.blits) <= Len(RowMajorTiles)
          /\ post.blits = SubSeq(RowMajorTiles, 1, Len(post.blits))
    /\ post.pc = "done" =>
          /\ post.blits = RowMajorTiles
          /\ post.refreshes = 1
          /\ post.blits_at_refresh = TileCountX * TileCountY
          /\ \A p \in Pixels : bitmap[p] = Content(p)

\* C7 witness: post_render has returned although a tile's bracket had been
\* drawn and never blitted by post_render_tile.
C7_Witness_PostRenderOverBrackets ==
    /\ post.pc = "done"
    /\ \E tile \in Tiles : tile_state[tile] = "aborted"
    /\ \E tile \in Tiles : tile_state[tile] = "todo"

\* C8: once post_render_tile has returned for a tile, the tile's pixels hold
\* the frame's content and no later step of any thread changes them.
C8_FinishedTilesStayIntact ==
    /\ [](\A tile \in Tiles :
            tile_state[tile] = "done" =>
               \A p \in ClaimedTilePixels(tile) : bitmap[p] = Content(p))
    /\ [][\A tile \in Tiles :
            tile_state[tile] = "done" =>
               \A p \in ClaimedTilePixels(tile) : bitmap'[p] = bitmap[p]]_vars

\* C8 witness: a tile is finished while one thread has just drawn the bracket
\* of another tile and a second thread is blitting a third.
C8_Witness_FinishedBesideInFlight ==
    /\ \E tile \in Tiles : tile_state[tile] = "done"
    /\ \E t, u \in Threads : t # u /\ pc[t] = "rendering" /\ pc[u] = "blit"

(***************************************************************************)
(* Properties of pre_render (checked under SpecBracket).                   *)
(***************************************************************************)

\* The four pairs of arms the claim names, in the order draw_bracket draws
\* them: a horizontal arm of min(5, width) pixels and a vertical arm of
\* min(5, height) pixels at each corner, on the border of the rectangle.
ClaimedArms(r) ==
    LET w == Min(BracketExtent, r.width)
        h == Min(BracketExtent, r.height)
        x0 == r.x
        x1 == r.x + r.width - 1
        y0 == r.y
        y1 == r.y + r.height - 1
    IN  << (x0 .. x0 + w - 1) \X {y0},
           {x0} \X (y0 .. y0 + h - 1),
           (x1 - w + 1 .. x1) \X {y0},
           {x1} \X (y0 .. y0 + h - 1),
           (x0 .. x0 + w - 1) \X {y1},
           {x0} \X (y1 - h + 1 .. y1),
           (x1 - w + 1 .. x1) \X {y1},
           {x1} \X (y1 - h + 1 .. y1) >>

\* The pixels of the rectangle [x, x+width) x [y, y+height).
InsideRect(r) == (r.x .. r.x + r.width - 1) \X (r.y .. r.y + r.height - 1)

\* C5: for every width >= 1 and height >= 1 pre_render ends, writes only the
\* bracket colour and only inside the rectangle, and what it writes are the
\* eight arms, each of min(5, width) resp. min(5, height) pixels.
C5_BracketInsideTile ==
    /\ br.pc # "hung"
    /\ br.colors \subseteq {BracketColor}
    /\ \A k \in 1 .. Len(br.arms) :
          /\ br.arms[k] \subseteq InsideRect(br.rect)
          /\ br.arms[k] = ClaimedArms(br.rect)[k]
          /\ br.lens[k] = Cardinality(ClaimedArms(br.rect)[k])
    /\ br.pc \in {"refresh", "done"} => Len(br.arms) = 8
    /\ br.pc = "done" =>
          RectPixels(br.refreshed) = InsideRect(br.rect)

\* C5 witness: pre_render has returned for a rectangle narrower and shorter
\* than the bracket extent, away from the bitmap's origin.
C5_Witness_SmallTileBracketed ==
    /\ br.pc = "done"
    /\ Len(br.arms) = 8
    /\ br.rect.width < BracketExtent
    /\ br.rect.height < BracketExtent
    /\ br.rect.width > 1
    /\ br.rect.x > 0

====
